---- MODULE Spec2Model ----
(***************************************************************************)
(* Connection gateway of YaarFetch: the Express request pipeline with its  *)
(* CORS origin gate, and the Socket.IO realtime gateway with its rooms.    *)
(* The repository holds three builds of the same server entry point; the   *)
(* variable `variant` says which one is running.                           *)
(***************************************************************************)
EXTENDS Integers, Sequences, FiniteSets, TLC

VARIABLES
    variant,       \* which server entry point runs
    env,           \* process.env.FRONTEND_URL: <<>> when unset, <<s>> when set to s
    http,          \* the HTTP request handled last and what the pipeline did with it
    conn,          \* socket id -> state of the Socket.IO connection
    nextSid,       \* index of the next socket id the server hands out
    adapterRooms,  \* the adapter's room registry: room name -> set of socket ids
    wantsRoom,     \* socket id -> match ids whose latest request from that
                   \* client was join-room (what the client asked for)
    lastOp,        \* the realtime operation handled last, and its effect
    logEvents,     \* whether this run keeps the per-socket event log below
    nPublished,    \* number of events published so far (kept when logEvents)
    inbox          \* socket id -> the events written to that socket, in the
                   \* order they were written; an event is named by its
                   \* number (kept when logEvents)

vars == <<variant, env, http, conn, nextSid, adapterRooms, wantsRoom, lastOp,
          logEvents, nPublished, inbox>>

rtVars == <<conn, nextSid, adapterRooms, wantsRoom, lastOp,
            logEvents, nPublished, inbox>>

----------------------------------------------------------------------------
(* Bounds *)

MaxConns == 3

\* Events published in a run that keeps the event log.
MaxPublish == 2

\* Connections opened in a run that keeps the event log.
MaxLogConns == 2

----------------------------------------------------------------------------
(* Configuration *)

\* backend/src/server.ts, and the two other builds of the entry point.
Variants == {"server_ts", "part_000", "part_001"}

\* Origins that clients declare in the runs below.
ForeignOrigin == "http://evil.example"
LocalOrigin == "http://localhost:5173"
LocalOriginSlash == "http://localhost:5173/"
CustomFrontend == "https://app.example"
VercelOrigin == "https://yaar-fetchv2-eight.vercel.app"

\* A header or environment value that may be missing: <<>> or <<value>>.
Absent == <<>>
Some(s) == <<s>>
IsPresent(h) == h # <<>>

DefaultFrontend == "https://serene-embrace-production.up.railway.app"

EnvChoices == {Absent, Some(""), Some(CustomFrontend)}

\* JavaScript truthiness of a string-or-undefined value.
Truthy(h) == IsPresent(h) /\ h[1] # ""

\* process.env.FRONTEND_URL || "<default>"
FRONTEND_URL(e) == IF Truthy(e) THEN e[1] ELSE DefaultFrontend

\* const allowedOrigins = [...]
allowedOrigins(v, e) ==
    CASE v = "part_000" ->
           <<FRONTEND_URL(e), "http://localhost:5173", "http://localhost:3000",
             "https://serene-embrace-production.up.railway.app">>
      [] v = "part_001" ->
           <<FRONTEND_URL(e), "http://localhost:5173", "http://localhost:3000",
             "https://serene-embrace-production.up.railway.app",
             "https://yaar-fetchv2-eight.vercel.app">>
      [] v = "server_ts" ->
           <<FRONTEND_URL(e), "http://localhost:5173", "http://localhost:3000">>

\* Array.prototype.includes / indexOf(...) !== -1 on strings: strict equality.
Includes(arr, s) == \E i \in 1..Len(arr) : arr[i] = s

AllowList == allowedOrigins(variant, env)

----------------------------------------------------------------------------
(* Origin gate *)

NoError == <<>>
CorsErrorMessage == "Not allowed by CORS"

\* corsOptions.origin(origin, callback): the arguments handed to callback.
corsOptionsOrigin(origin, L) ==
    IF ~Truthy(origin)
    THEN [err |-> NoError, allow |-> TRUE]
    ELSE IF Includes(L, origin[1])
         THEN [err |-> NoError, allow |-> TRUE]
         ELSE [err |-> Some(CorsErrorMessage), allow |-> FALSE]

\* How each entry point configures the `origin` option of the HTTP cors
\* middleware: a callback (corsOptions) or the allow-list array itself.
HttpOriginOption(v) == IF v = "server_ts" THEN "array" ELSE "function"

\* The Socket.IO server is always given the allow-list array.
IoOriginOption == "array"

\* The cors middleware for one request.  With a callback, an error is passed
\* to next and nothing else of the middleware runs; a falsy answer without an
\* error passes the request on with no CORS headers.  With an array, the
\* request origin is only reflected in Access-Control-Allow-Origin when it is
\* listed.  OPTIONS requests that pass are answered 204 by the middleware.
corsMiddleware(option, method, origin, L) ==
    LET d == corsOptionsOrigin(origin, L)
        acao == IF option = "function"
                THEN origin
                ELSE IF IsPresent(origin) /\ Includes(L, origin[1])
                     THEN origin ELSE Absent
    IN  IF option = "function" /\ d.err # NoError
        THEN [outcome |-> "error", err |-> d.err, acao |-> Absent]
        ELSE IF option = "function" /\ ~d.allow
             THEN [outcome |-> "next", err |-> NoError, acao |-> Absent]
             ELSE IF method = "OPTIONS"
                  THEN [outcome |-> "end", err |-> NoError, acao |-> acao]
                  ELSE [outcome |-> "next", err |-> NoError, acao |-> acao]

----------------------------------------------------------------------------
(* Request gateway *)

Methods == {"GET", "POST", "OPTIONS"}

RoutePrefixes == {"/api/auth", "/api/users", "/api/orders", "/api/offers",
                  "/api/matches", "/api/messages", "/api/reviews"}

Paths == RoutePrefixes \cup
         {"/uploads/a.png", "/api/health", "/api/cors-test", "/nowhere"}

Origins == {Absent, Some(""), Some(LocalOrigin), Some(LocalOriginSlash),
            Some(ForeignOrigin), Some(CustomFrontend), Some(VercelOrigin)}

\* Body parser limits in bytes: '10mb', and body-parser's default '100kb'.
TenMb == 10485760
DefaultLimit == 102400
BodyLimit(v) == IF v = "server_ts" THEN DefaultLimit ELSE TenMb

BodySizes == {0, DefaultLimit, DefaultLimit + 1, TenMb, TenMb + 1}
ContentTypes == {"json", "urlencoded", "multipart"}

\* What an external route handler does when it is invoked.
HandlerBehaviours == {"respond", "pass", "throw-domain", "throw-cors-text"}
HandlerErrorMessage(h) ==
    IF h = "throw-cors-text" THEN CorsErrorMessage ELSE "domain failure"

\* The requests tried: a body on POST only, a content type only with a body,
\* a handler behaviour only where a handler group is mounted, a file only
\* under /uploads.
Requests ==
    {r \in [method : Methods, path : Paths, origin : Origins,
            bodyLen : BodySizes, contentType : ContentTypes,
            fileExists : BOOLEAN, handler : HandlerBehaviours] :
        /\ r.method # "POST" => r.bodyLen = 0
        /\ r.bodyLen = 0 => r.contentType = "json"
        /\ r.path \notin RoutePrefixes => r.handler = "pass"
        /\ r.path # "/uploads/a.png" => ~r.fileExists}

NoBody == [kind |-> "none", yourOrigin |-> Absent, allowedOrigins |-> <<>>,
           origin |-> Absent, allowed |-> FALSE]

\* Mutant of errorMiddleware: the `return` before res.status(403) is missing,
\* so the error is answered and also passed on.
errorMiddlewareNoReturn(err, r, L) ==
    IF err.message = CorsErrorMessage
    THEN [answered |-> TRUE, passedOn |-> TRUE, status |-> 403,
          body |-> [NoBody EXCEPT !.kind = "CORS Error",
                                  !.yourOrigin = r.origin,
                                  !.allowedOrigins = L]]
    ELSE [answered |-> FALSE, passedOn |-> TRUE, status |-> 0, body |-> NoBody]

\* The error-handling middleware (err, req, res, next): it answers the
\* request itself (answered) or hands the error to next (passedOn).
errorMiddleware(err, r, L) ==
    IF err.message = CorsErrorMessage
    THEN [answered |-> TRUE, passedOn |-> FALSE, status |-> 403,
          body |-> [NoBody EXCEPT !.kind = "CORS Error",
                                  !.yourOrigin = r.origin,
                                  !.allowedOrigins = L]]
    ELSE [answered |-> FALSE, passedOn |-> TRUE, status |-> 0, body |-> NoBody]

\* Express's final handler: 404 when nothing answered, the error's status
\* (or 500) when an error was passed on.
finalHandler(err) ==
    IF err = NoError
    THEN [status |-> 404, body |-> [NoBody EXCEPT !.kind = "not-found"]]
    ELSE [status |-> err[1].status, body |-> [NoBody EXCEPT !.kind = "error"]]

HasErrorMiddleware(v) == v # "server_ts"
HasCorsTest(v) == v # "server_ts"

\* express.json / express.urlencoded: parse a body of their own content type,
\* failing with 413 when it is longer than the limit.
bodyParserFails(v, r, type) ==
    r.bodyLen > 0 /\ r.contentType = type /\ r.bodyLen > BodyLimit(v)

\* app.get('/api/cors-test')
corsTestBody(r, L) ==
    [NoBody EXCEPT !.kind = "cors-test",
                   !.origin = r.origin,
                   !.allowed = Includes(L, IF Truthy(r.origin) THEN r.origin[1] ELSE "")]

\* The middleware stack in registration order, run for request r.
\* Result: the layers invoked, the number of responses written, and the
\* status and body of the first of them.
Pipeline(v, L, r) ==
    LET c == corsMiddleware(HttpOriginOption(v), r.method, r.origin, L)
        \* an error passed to next skips every ordinary layer
        Fail(invoked, e) ==
            LET em == IF HasErrorMiddleware(v)
                      THEN errorMiddleware(e, r, L)
                      ELSE [answered |-> FALSE, passedOn |-> TRUE,
                            status |-> 0, body |-> NoBody]
                inv2 == IF HasErrorMiddleware(v) THEN invoked \cup {"errorMiddleware"}
                        ELSE invoked
                inv3 == IF em.passedOn THEN inv2 \cup {"finalHandler"} ELSE inv2
                n == (IF em.answered THEN 1 ELSE 0) + (IF em.passedOn THEN 1 ELSE 0)
            IN  IF em.answered
                THEN [invoked |-> inv3, responses |-> n,
                      status |-> em.status, body |-> em.body]
                ELSE [invoked |-> inv3, responses |-> n,
                      status |-> finalHandler(Some(e)).status,
                      body |-> finalHandler(Some(e)).body]
        Done(invoked, status, kind) ==
            [invoked |-> invoked, responses |-> 1, status |-> status,
             body |-> [NoBody EXCEPT !.kind = kind]]
        AfterRoutes(invoked) ==
            IF r.method = "GET" /\ r.path = "/api/health"
            THEN Done(invoked \cup {"health"}, 200, "health")
            ELSE IF HasCorsTest(v) /\ r.method = "GET" /\ r.path = "/api/cors-test"
                 THEN [invoked |-> invoked \cup {"cors-test"}, responses |-> 1,
                       status |-> 200, body |-> corsTestBody(r, L)]
                 ELSE [invoked |-> invoked \cup {"finalHandler"},
                       responses |-> 1,
                       status |-> finalHandler(NoError).status,
                       body |-> finalHandler(NoError).body]
        AfterStatic(invoked) ==
            IF r.path \in RoutePrefixes
            THEN CASE r.handler = "respond" ->
                        Done(invoked \cup {"route"}, 200, "handler")
                   [] r.handler = "pass" -> AfterRoutes(invoked \cup {"route"})
                   [] OTHER ->
                        Fail(invoked \cup {"route"},
                             [message |-> HandlerErrorMessage(r.handler),
                              status |-> 500])
            ELSE AfterRoutes(invoked)
        AfterParsers(invoked) ==
            IF r.path = "/uploads/a.png"
            THEN IF r.method = "GET" /\ r.fileExists
                 THEN Done(invoked \cup {"static"}, 200, "file")
                 ELSE AfterStatic(invoked \cup {"static"})
            ELSE AfterStatic(invoked)
        tooLarge == [message |-> "request entity too large", status |-> 413]
    IN  CASE c.outcome = "error" ->
               Fail({"cors"}, [message |-> c.err[1], status |-> 500])
          [] c.outcome = "end" -> Done({"cors"}, 204, "preflight")
          [] OTHER ->
               IF bodyParserFails(v, r, "json")
               THEN Fail({"cors", "json"}, tooLarge)
               ELSE IF bodyParserFails(v, r, "urlencoded")
                    THEN Fail({"cors", "json", "urlencoded"}, tooLarge)
                    ELSE AfterParsers({"cors", "json", "urlencoded"})

NoRequest == [method |-> "GET", path |-> "/nowhere", origin |-> Absent,
              bodyLen |-> 0, contentType |-> "json", fileExists |-> FALSE,
              handler |-> "pass"]

NoResult == [invoked |-> {}, responses |-> 0, status |-> 0, body |-> NoBody]

\* The HTTP server accepts request r.
Arrive(r) ==
    /\ http.phase = "idle"
    /\ http' = [phase |-> "received", req |-> r, result |-> NoResult]
    /\ UNCHANGED <<variant, env>>
    /\ UNCHANGED rtVars

\* The accepted request is taken through the whole stack.
HandleRequest ==
    /\ http.phase = "received"
    /\ http' = [http EXCEPT !.phase = "answered",
                            !.result = Pipeline(variant, AllowList, http.req)]
    /\ UNCHANGED <<variant, env>>
    /\ UNCHANGED rtVars

\* The response has been written out; the server waits for the next request.
Complete ==
    /\ http.phase = "answered"
    /\ http' = [phase |-> "idle", req |-> NoRequest, result |-> NoResult]
    /\ UNCHANGED <<variant, env>>
    /\ UNCHANGED rtVars

----------------------------------------------------------------------------
(* Realtime gateway *)

SocketIds == <<"sidA", "sidB", "sidC", "sidD", "sidE">>
AllSids == {SocketIds[i] : i \in 1..MaxConns}

MatchIds == {"42", "7"}
EventNames == {"new-message", "new-offer"}
Payloads == {"hi"}

HandshakeOrigins == {Absent, Some(LocalOrigin), Some(ForeignOrigin)}

\* `match-${matchId}`
RoomName(matchId) == "match-" \o matchId

RoomNames == {RoomName(m) : m \in MatchIds} \cup AllSids

\* What is kept of an operation: who asked for what (room: the room name
\* given to io.to, when one was given as it is), the room registry as it
\* was before it (before), and for an emit the sockets written to (targets),
\* the writes in the order they were made (attempts), the sockets whose
\* transport did not take the packet (failed) and what the caller got back.
NoOp == [op |-> "none", sid |-> "", match |-> "", noop |-> FALSE,
         origin |-> Absent, event |-> "", payload |-> "", targets |-> {},
         before |-> [r \in RoomNames |-> {}], attempts |-> <<>>,
         failed |-> {}, result |-> "", room |-> ""]

\* Mutant of Handshake: the new socket is put back into the rooms of the
\* connection that closed last (a resumed session).
HandshakeResumes(o) ==
    /\ nextSid <= MaxConns
    /\ LET m == corsMiddleware(IoOriginOption, "GET", o, AllowList)
           sid == SocketIds[nextSid]
           old == IF nextSid > 1 /\ conn[SocketIds[nextSid - 1]] = "closed"
                  THEN wantsRoom[SocketIds[nextSid - 1]] ELSE {}
       IN  IF m.outcome = "error"
           THEN /\ lastOp' = [NoOp EXCEPT !.before = adapterRooms,
                                          !.op = "refused", !.origin = o]
                /\ UNCHANGED <<conn, nextSid, adapterRooms>>
           ELSE /\ conn' = [conn EXCEPT ![sid] = "open"]
                /\ nextSid' = nextSid + 1
                /\ adapterRooms' =
                      [r \in RoomNames |->
                          IF r = sid \/ (\E x \in old : r = RoomName(x))
                          THEN adapterRooms[r] \cup {sid} ELSE adapterRooms[r]]
                /\ lastOp' = [NoOp EXCEPT !.before = adapterRooms,
                                          !.op = "connection", !.sid = sid,
                                          !.origin = o]
    /\ UNCHANGED <<wantsRoom, logEvents, nPublished, inbox>>
    /\ UNCHANGED <<variant, env, http>>

\* A client opens a connection declaring origin o.  The Socket.IO server runs
\* its cors middleware (given the allow-list array) on the handshake request,
\* then creates the socket, puts it in the room named after its own id and
\* runs the 'connection' callback, which registers the three listeners.
Handshake(o) ==
    /\ nextSid <= MaxConns
    /\ LET m == corsMiddleware(IoOriginOption, "GET", o, AllowList)
           sid == SocketIds[nextSid]
       IN  IF m.outcome = "error"
           THEN /\ lastOp' = [NoOp EXCEPT !.before = adapterRooms,
                                          !.op = "refused", !.origin = o]
                /\ UNCHANGED <<conn, nextSid, adapterRooms>>
           ELSE /\ conn' = [conn EXCEPT ![sid] = "open"]
                /\ nextSid' = nextSid + 1
                /\ adapterRooms' = [adapterRooms EXCEPT ![sid] = @ \cup {sid}]
                /\ lastOp' = [NoOp EXCEPT !.before = adapterRooms,
                                          !.op = "connection", !.sid = sid,
                                          !.origin = o]
    /\ UNCHANGED <<wantsRoom, logEvents, nPublished, inbox>>
    /\ UNCHANGED <<variant, env, http>>

\* Mutant of JoinRoom: a repeated join-room drops the membership again.
JoinRoomToggles(c, matchId) ==
    /\ conn[c] = "open"
    /\ adapterRooms' = [adapterRooms EXCEPT ![RoomName(matchId)] =
                           IF c \in @ THEN @ \ {c} ELSE @ \cup {c}]
    /\ wantsRoom' = [wantsRoom EXCEPT ![c] = @ \cup {matchId}]
    /\ lastOp' = [NoOp EXCEPT !.before = adapterRooms, !.op = "join-room",
                              !.sid = c, !.match = matchId,
                              !.noop = matchId \in wantsRoom[c]]
    /\ UNCHANGED <<conn, nextSid, logEvents, nPublished, inbox>>
    /\ UNCHANGED <<variant, env, http>>

\* Mutant of JoinRoom: a socket is kept in one match room at a time.
JoinRoomExclusive(c, matchId) ==
    /\ conn[c] = "open"
    /\ adapterRooms' = [r \in RoomNames |->
                           IF r = RoomName(matchId) THEN adapterRooms[r] \cup {c}
                           ELSE IF r \in AllSids THEN adapterRooms[r]
                           ELSE adapterRooms[r] \ {c}]
    /\ wantsRoom' = [wantsRoom EXCEPT ![c] = @ \cup {matchId}]
    /\ lastOp' = [NoOp EXCEPT !.before = adapterRooms, !.op = "join-room",
                              !.sid = c, !.match = matchId,
                              !.noop = matchId \in wantsRoom[c]]
    /\ UNCHANGED <<conn, nextSid, logEvents, nPublished, inbox>>
    /\ UNCHANGED <<variant, env, http>>

\* Mutant of JoinRoom: the room's member set is written back as the joining
\* socket alone, losing the members registered meanwhile.
JoinRoomOverwrites(c, matchId) ==
    /\ conn[c] = "open"
    /\ adapterRooms' = [adapterRooms EXCEPT ![RoomName(matchId)] = {c}]
    /\ wantsRoom' = [wantsRoom EXCEPT ![c] = @ \cup {matchId}]
    /\ lastOp' = [NoOp EXCEPT !.before = adapterRooms, !.op = "join-room",
                              !.sid = c, !.match = matchId,
                              !.noop = matchId \in wantsRoom[c]]
    /\ UNCHANGED <<conn, nextSid, logEvents, nPublished, inbox>>
    /\ UNCHANGED <<variant, env, http>>

\* socket.on('join-room', matchId => socket.join(`match-${matchId}`))
JoinRoom(c, matchId) ==
    /\ conn[c] = "open"
    /\ adapterRooms' = [adapterRooms EXCEPT ![RoomName(matchId)] = @ \cup {c}]
    /\ wantsRoom' = [wantsRoom EXCEPT ![c] = @ \cup {matchId}]
    /\ lastOp' = [NoOp EXCEPT !.before = adapterRooms, !.op = "join-room",
                              !.sid = c, !.match = matchId,
                              !.noop = matchId \in wantsRoom[c]]
    /\ UNCHANGED <<conn, nextSid, logEvents, nPublished, inbox>>
    /\ UNCHANGED <<variant, env, http>>

\* Mutant of LeaveRoom: the listener forgets to call socket.leave.
LeaveRoomKeepsMember(c, matchId) ==
    /\ conn[c] = "open"
    /\ wantsRoom' = [wantsRoom EXCEPT ![c] = @ \ {matchId}]
    /\ lastOp' = [NoOp EXCEPT !.before = adapterRooms, !.op = "leave-room",
                              !.sid = c, !.match = matchId,
                              !.noop = matchId \notin wantsRoom[c]]
    /\ UNCHANGED <<conn, nextSid, adapterRooms, logEvents, nPublished, inbox>>
    /\ UNCHANGED <<variant, env, http>>

\* Mutant of LeaveRoom: the socket is taken out of every match room.
LeaveRoomLeavesAll(c, matchId) ==
    /\ conn[c] = "open"
    /\ adapterRooms' = [r \in RoomNames |->
                           IF r \in AllSids THEN adapterRooms[r]
                           ELSE adapterRooms[r] \ {c}]
    /\ wantsRoom' = [wantsRoom EXCEPT ![c] = @ \ {matchId}]
    /\ lastOp' = [NoOp EXCEPT !.before = adapterRooms, !.op = "leave-room",
                              !.sid = c, !.match = matchId,
                              !.noop = matchId \notin wantsRoom[c]]
    /\ UNCHANGED <<conn, nextSid, logEvents, nPublished, inbox>>
    /\ UNCHANGED <<variant, env, http>>

\* socket.on('leave-room', matchId => socket.leave(`match-${matchId}`))
LeaveRoom(c, matchId) ==
    /\ conn[c] = "open"
    /\ adapterRooms' = [adapterRooms EXCEPT ![RoomName(matchId)] = @ \ {c}]
    /\ wantsRoom' = [wantsRoom EXCEPT ![c] = @ \ {matchId}]
    /\ lastOp' = [NoOp EXCEPT !.before = adapterRooms, !.op = "leave-room",
                              !.sid = c, !.match = matchId,
                              !.noop = matchId \notin wantsRoom[c]]
    /\ UNCHANGED <<conn, nextSid, logEvents, nPublished, inbox>>
    /\ UNCHANGED <<variant, env, http>>

\* Mutant of Disconnect: the socket stays registered in its rooms.
DisconnectNoCleanup(c) ==
    /\ conn[c] = "open"
    /\ conn' = [conn EXCEPT ![c] = "closed"]
    /\ lastOp' = [NoOp EXCEPT !.before = adapterRooms, !.op = "disconnect", !.sid = c]
    /\ UNCHANGED <<nextSid, wantsRoom, adapterRooms, logEvents, nPublished, inbox>>
    /\ UNCHANGED <<variant, env, http>>

\* Mutant of Disconnect: only the room named after the socket id is left.
DisconnectLeavesOwnRoomOnly(c) ==
    /\ conn[c] = "open"
    /\ conn' = [conn EXCEPT ![c] = "closed"]
    /\ adapterRooms' = [adapterRooms EXCEPT ![c] = @ \ {c}]
    /\ lastOp' = [NoOp EXCEPT !.before = adapterRooms, !.op = "disconnect", !.sid = c]
    /\ UNCHANGED <<nextSid, wantsRoom, logEvents, nPublished, inbox>>
    /\ UNCHANGED <<variant, env, http>>

\* The transport closes (client disconnect, transport failure, shutdown):
\* Socket.IO takes the socket out of every room, then runs the 'disconnect'
\* listener, which only logs.
Disconnect(c) ==
    /\ conn[c] = "open"
    /\ conn' = [conn EXCEPT ![c] = "closed"]
    /\ adapterRooms' = [r \in RoomNames |-> adapterRooms[r] \ {c}]
    /\ lastOp' = [NoOp EXCEPT !.before = adapterRooms, !.op = "disconnect", !.sid = c]
    /\ UNCHANGED <<nextSid, wantsRoom, logEvents, nPublished, inbox>>
    /\ UNCHANGED <<variant, env, http>>

\* The sockets of a set, in the order the server created them.
InOrder(S) == SelectSeq(SocketIds, LAMBDA c : c \in S)

\* Mutant of Publish: the first socket whose transport does not take the
\* packet ends the loop, and the caller gets the error.
PublishStopsAtFailure(roomId, e, p, down) ==
    LET members == adapterRooms[RoomName(roomId)]
        all == InOrder(members)
        firstBad == IF \E i \in 1..Len(all) : all[i] \in down
                    THEN CHOOSE i \in 1..Len(all) :
                            /\ all[i] \in down
                            /\ \A j \in 1..(i - 1) : all[j] \notin down
                    ELSE Len(all)
        tried == SubSeq(all, 1, firstBad)
        written == {tried[i] : i \in 1..Len(tried)}
    IN  /\ logEvents => nPublished < MaxPublish
        /\ down \subseteq members
        /\ nPublished' = IF logEvents THEN nPublished + 1 ELSE nPublished
        /\ inbox' = [c \in AllSids |->
                        IF logEvents /\ c \in written
                        THEN Append(inbox[c], nPublished + 1)
                        ELSE inbox[c]]
        /\ lastOp' = [NoOp EXCEPT !.before = adapterRooms, !.op = "publish",
                                  !.match = roomId, !.event = e, !.payload = p,
                                  !.targets = written, !.attempts = tried,
                                  !.failed = down,
                                  !.result = IF down = {} THEN "ok" ELSE "error"]
        /\ UNCHANGED <<conn, nextSid, adapterRooms, wantsRoom, logEvents>>
        /\ UNCHANGED <<variant, env, http>>

\* Mutant of Publish: the packet is put at the head of each socket's queue.
PublishNewestFirst(roomId, e, p, down) ==
    LET members == adapterRooms[RoomName(roomId)]
    IN  /\ logEvents => nPublished < MaxPublish
        /\ down \subseteq members
        /\ nPublished' = IF logEvents THEN nPublished + 1 ELSE nPublished
        /\ inbox' = [c \in AllSids |->
                        IF logEvents /\ c \in members
                        THEN <<nPublished + 1>> \o inbox[c]
                        ELSE inbox[c]]
        /\ lastOp' = [NoOp EXCEPT !.before = adapterRooms, !.op = "publish",
                                  !.match = roomId, !.event = e, !.payload = p,
                                  !.targets = members,
                                  !.attempts = InOrder(members),
                                  !.failed = down, !.result = "ok"]
        /\ UNCHANGED <<conn, nextSid, adapterRooms, wantsRoom, logEvents>>
        /\ UNCHANGED <<variant, env, http>>

\* publish(roomId, eventName, payload) through the shared handle,
\* io.to(`match-${roomId}`).emit(eventName, payload): the packet is written
\* once to every socket registered in the room of that match, one socket
\* after the other; `down` are the sockets whose transport does not take it.
\* Nothing is awaited and nothing is reported back to the caller.
Publish(roomId, e, p, down) ==
    LET members == adapterRooms[RoomName(roomId)]
    IN  /\ logEvents => nPublished < MaxPublish
        /\ down \subseteq members
        /\ nPublished' = IF logEvents THEN nPublished + 1 ELSE nPublished
        /\ inbox' = [c \in AllSids |->
                        IF logEvents /\ c \in members
                        THEN Append(inbox[c], nPublished + 1)
                        ELSE inbox[c]]
        /\ lastOp' = [NoOp EXCEPT !.before = adapterRooms, !.op = "publish",
                                  !.match = roomId, !.event = e, !.payload = p,
                                  !.targets = members,
                                  !.attempts = InOrder(members),
                                  !.failed = down, !.result = "ok"]
        /\ UNCHANGED <<conn, nextSid, adapterRooms, wantsRoom, logEvents>>
        /\ UNCHANGED <<variant, env, http>>

\* app.set('io', io) and `export { io }` hand the Socket.IO Server itself to
\* the route handlers.  io.emit(eventName, payload) on it writes the packet
\* to every connected socket: every socket is registered in the room named
\* after its own id.
IoEmit(e, p) ==
    LET all == UNION {adapterRooms[c] : c \in AllSids}
    IN  /\ logEvents => nPublished < MaxPublish
        /\ nPublished' = IF logEvents THEN nPublished + 1 ELSE nPublished
        /\ inbox' = [c \in AllSids |->
                        IF logEvents /\ c \in all
                        THEN Append(inbox[c], nPublished + 1)
                        ELSE inbox[c]]
        /\ lastOp' = [NoOp EXCEPT !.before = adapterRooms, !.op = "io.emit",
                                  !.event = e, !.payload = p,
                                  !.targets = all, !.attempts = InOrder(all),
                                  !.result = "ok"]
        /\ UNCHANGED <<conn, nextSid, adapterRooms, wantsRoom, logEvents>>
        /\ UNCHANGED <<variant, env, http>>

\* io.to(room).emit(eventName, payload) on the same object, with the room
\* name as the caller gives it: a match room or the id of one socket.
IoToEmit(room, e, p) ==
    LET members == adapterRooms[room]
    IN  /\ logEvents => nPublished < MaxPublish
        /\ nPublished' = IF logEvents THEN nPublished + 1 ELSE nPublished
        /\ inbox' = [c \in AllSids |->
                        IF logEvents /\ c \in members
                        THEN Append(inbox[c], nPublished + 1)
                        ELSE inbox[c]]
        /\ lastOp' = [NoOp EXCEPT !.before = adapterRooms, !.op = "io.to.emit",
                                  !.room = room, !.event = e, !.payload = p,
                                  !.targets = members,
                                  !.attempts = InOrder(members),
                                  !.result = "ok"]
        /\ UNCHANGED <<conn, nextSid, adapterRooms, wantsRoom, logEvents>>
        /\ UNCHANGED <<variant, env, http>>

----------------------------------------------------------------------------
(* Specifications *)

\* Nothing has happened yet: no request, no connection, no event.
InitIdle ==
    /\ http = [phase |-> "idle", req |-> NoRequest, result |-> NoResult]
    /\ conn = [c \in AllSids |-> "none"]
    /\ nextSid = 1
    /\ adapterRooms = [r \in RoomNames |-> {}]
    /\ wantsRoom = [c \in AllSids |-> {}]
    /\ lastOp = NoOp
    /\ nPublished = 0
    /\ inbox = [c \in AllSids |-> <<>>]

Init ==
    /\ variant \in Variants
    /\ env \in EnvChoices
    /\ logEvents = FALSE
    /\ InitIdle

\* The deployed build with FRONTEND_URL unset, in a run that keeps the log.
InitLog ==
    /\ variant = "part_001"
    /\ env = Absent
    /\ logEvents = TRUE
    /\ InitIdle

NextHttp ==
    \/ \E r \in Requests : Arrive(r)
    \/ HandleRequest
    \/ Complete

\* Every transport takes every packet.
NextRt ==
    \/ \E o \in HandshakeOrigins : Handshake(o)
    \/ \E c \in AllSids, m \in MatchIds : JoinRoom(c, m)
    \/ \E c \in AllSids, m \in MatchIds : LeaveRoom(c, m)
    \/ \E c \in AllSids : Disconnect(c)
    \/ \E m \in MatchIds, e \in EventNames, p \in Payloads : Publish(m, e, p, {})

\* The request gateway alone, under every entry point and environment.
SpecHttp == Init /\ [][NextHttp]_vars

\* The request gateway when the event loop keeps running: an accepted request
\* is taken through the stack, and its response is written out.
SpecHttpFair ==
    SpecHttp /\ WF_vars(HandleRequest) /\ WF_vars(Complete)

\* The realtime gateway alone, under every entry point and environment.
SpecRt == Init /\ [][NextRt]_vars

\* The realtime gateway with route handlers that use the object they are
\* given in every way it offers.
NextHandle ==
    \/ NextRt
    \/ \E e \in EventNames, p \in Payloads : IoEmit(e, p)
    \/ \E r \in RoomNames, e \in EventNames, p \in Payloads : IoToEmit(r, e, p)

SpecHandle == Init /\ [][NextHandle]_vars

\* The realtime gateway of a run that keeps the event log; any of the
\* sockets written to may fail to take the packet.
NextLog ==
    \/ \E o \in HandshakeOrigins : nextSid <= MaxLogConns /\ Handshake(o)
    \/ \E c \in AllSids, m \in MatchIds : JoinRoom(c, m)
    \/ \E c \in AllSids, m \in MatchIds : LeaveRoom(c, m)
    \/ \E c \in AllSids : Disconnect(c)
    \/ \E m \in MatchIds, e \in EventNames, p \in Payloads :
          \E down \in SUBSET adapterRooms[RoomName(m)] : Publish(m, e, p, down)

SpecLog == InitLog /\ [][NextLog]_vars

----------------------------------------------------------------------------
(* Properties of the request gateway (checked under SpecHttp) *)

Answered == http.phase = "answered"

\* The declared origin is present and is not an entry of the allow-list.
PresentUnlisted(o, L) == IsPresent(o) /\ ~Includes(L, o[1])

\* Layers behind the origin gate: body parsers, static assets, handlers.
Downstream == {"json", "urlencoded", "static", "route", "health", "cors-test"}

\* C1: the origin callback allows a declared origin if and only if the origin
\* is absent or is, verbatim, an entry of the allow-list.
C1_DecideIffAbsentOrListed ==
    (Answered /\ HttpOriginOption(variant) = "function") =>
        (corsOptionsOrigin(http.req.origin, AllowList).allow
            <=> ~PresentUnlisted(http.req.origin, AllowList))

\* C2: a request whose origin is present and not in the allow-list never has
\* a body parser, the static-asset server or a route handler invoked for it.
C2_DeniedOriginReachesNothing ==
    (Answered /\ PresentUnlisted(http.req.origin, AllowList)) =>
        http.result.invoked \cap Downstream = {}

\* C3: a request whose origin is present and not in the allow-list is
\* answered 403 with yourOrigin = its origin and allowedOrigins = the list.
C3_DeniedOriginGets403 ==
    (Answered /\ PresentUnlisted(http.req.origin, AllowList)) =>
        /\ http.result.status = 403
        /\ http.result.body.yourOrigin = http.req.origin
        /\ http.result.body.allowedOrigins = AllowList

\* C10: the `allowed` field of the /api/cors-test response equals the origin
\* decision for the caller's origin, and `origin` echoes that origin.
C10_CorsTestReportsDecision ==
    (Answered /\ "cors-test" \in http.result.invoked) =>
        /\ http.result.body.allowed =
               corsOptionsOrigin(http.req.origin, AllowList).allow
        /\ http.result.body.origin = http.req.origin

\* C11: every accepted request is answered, and with exactly one response,
\* whichever layer ends it.
C11_ExactlyOneResponse ==
    /\ [](Answered => http.result.responses = 1)
    /\ (http.phase = "received") ~> Answered

\* A handler raised an error; the error middleware passed it on and the
\* final handler wrote the one response.
C11_Witness ==
    /\ Answered
    /\ http.req.handler = "throw-domain"
    /\ "errorMiddleware" \in http.result.invoked
    /\ http.result.status = 500
    /\ http.result.responses = 1

\* C19: the 403 origin-denial response is given only to requests whose
\* origin is present and not in the allow-list; an error raised by a route
\* handler for any other request is passed on by the error middleware as it
\* is and is answered by the final handler, never as an origin denial.
C19_DenialOnlyForDeniedOrigin ==
    (Answered /\ ~PresentUnlisted(http.req.origin, AllowList)) =>
        /\ ~(http.result.status = 403 /\ http.result.body.kind = "CORS Error")
        /\ ("route" \in http.result.invoked
               /\ http.req.handler \in {"throw-domain", "throw-cors-text"}) =>
              /\ "finalHandler" \in http.result.invoked
              /\ http.result.status = 500
              /\ http.result.body.kind = "error"

\* C20: a request with a body over the limit is answered 4xx without a route
\* handler being invoked when its origin is allowed, and is answered as an
\* origin denial when its origin is present and not in the allow-list.
C20_OversizeRejectedAfterOriginCheck ==
    (Answered /\ http.req.bodyLen > BodyLimit(variant)) =>
        IF PresentUnlisted(http.req.origin, AllowList)
        THEN /\ http.result.status = 403
             /\ http.result.body.kind = "CORS Error"
        ELSE /\ http.result.status \in 400..499
             /\ "route" \notin http.result.invoked

----------------------------------------------------------------------------
(* Properties of the realtime gateway (checked under SpecRt) *)

\* Whether the request gateway lets a request with this method and origin
\* past its origin check.
RequestPasses(method, o) ==
    corsMiddleware(HttpOriginOption(variant), method, o, AllowList).outcome
        # "error"

\* The connections that are open and whose latest request for the match was
\* join-room.
CurrentMembers(matchId) ==
    {c \in AllSids : conn[c] = "open" /\ matchId \in wantsRoom[c]}

\* C4: a handshake becomes an Open connection only if its origin is absent
\* or in the allow-list; otherwise it is refused and no connection exists.
C4_HandshakeOpensOnlyIfAllowed ==
    lastOp.op = "connection" => ~PresentUnlisted(lastOp.origin, AllowList)

\* C5: for every origin, a simple request, a pre-flight request and a
\* connection handshake get the same allow/deny outcome.
C5_ThreePointsAgree ==
    lastOp.op \in {"connection", "refused"} =>
        /\ (lastOp.op = "connection") <=> RequestPasses("GET", lastOp.origin)
        /\ (lastOp.op = "connection") <=> RequestPasses("OPTIONS", lastOp.origin)

\* C6: join-room for a room the connection already asked to join, and
\* leave-room for a room it is not in, change no membership and no
\* connection.
C6_JoinLeaveIdempotent ==
    [][(lastOp'.op \in {"join-room", "leave-room"} /\ lastOp'.noop) =>
          (adapterRooms' = adapterRooms /\ conn' = conn /\ nextSid' = nextSid)]_vars

C6_Witness ==
    /\ lastOp.op = "join-room"
    /\ lastOp.noop
    /\ lastOp.sid \in adapterRooms[RoomName(lastOp.match)]

\* C7: a publish to room R is delivered to exactly the open connections
\* whose latest request for R was join-room(R).
C7_PublishReachesExactlyMembers ==
    lastOp.op = "publish" => lastOp.targets = CurrentMembers(lastOp.match)

\* A and B joined "42", C is open and joined nothing, and the publish to
\* "42" went to exactly A and B.
C7_Witness ==
    /\ lastOp.op = "publish"
    /\ lastOp.match = "42"
    /\ lastOp.event = "new-message"
    /\ lastOp.targets = {SocketIds[1], SocketIds[2]}
    /\ conn[SocketIds[3]] = "open"
    /\ wantsRoom[SocketIds[3]] = {}

\* C8: a closed connection is in no room, is not reached by a later publish,
\* and stays closed.
C8_ClosedIsOutForGood ==
    /\ [](\A c \in AllSids : conn[c] = "closed" =>
            /\ \A r \in RoomNames : c \notin adapterRooms[r]
            /\ c \notin lastOp.targets)
    /\ [][\A c \in AllSids : conn[c] = "closed" => conn'[c] = "closed"]_vars

\* A connection that had joined "42" is closed, and "42" was published to
\* afterwards.
C8_Witness ==
    \E c \in AllSids :
        /\ conn[c] = "closed"
        /\ "42" \in wantsRoom[c]
        /\ lastOp.op = "publish"
        /\ lastOp.match = "42"

\* C9: a publish to a room with no member reaches nobody and changes nothing
\* in the gateway.
C9_PublishToEmptyRoom ==
    /\ []((lastOp.op = "publish" /\ CurrentMembers(lastOp.match) = {}) =>
            lastOp.targets = {})
    /\ [][(lastOp'.op = "publish" /\ CurrentMembers(lastOp'.match) = {}) =>
            (conn' = conn /\ adapterRooms' = adapterRooms
             /\ wantsRoom' = wantsRoom /\ nextSid' = nextSid)]_vars

\* A joined "42" and disconnected; the publish to "42" reached nobody.
C9_Witness ==
    /\ lastOp.op = "publish"
    /\ lastOp.match = "42"
    /\ lastOp.targets = {}
    /\ conn[SocketIds[1]] = "closed"
    /\ "42" \in wantsRoom[SocketIds[1]]

\* The rooms of matches a socket is registered in.
MatchRoomsOf(c, rooms) == {m \in MatchIds : c \in rooms[RoomName(m)]}

\* C12: join-room(R) or leave-room(R) from connection c changes nothing but
\* c's membership of R, and a connection's set of match rooms is changed by
\* nothing but its own join-room, leave-room or close.
C12_OnlyOwnMembershipChanges ==
    /\ lastOp.op \in {"join-room", "leave-room"} =>
          \A r \in RoomNames, c \in AllSids :
              (r # RoomName(lastOp.match) \/ c # lastOp.sid) =>
                  ((c \in adapterRooms[r]) <=> (c \in lastOp.before[r]))
    /\ \A c \in AllSids :
          MatchRoomsOf(c, adapterRooms) # MatchRoomsOf(c, lastOp.before) =>
              /\ lastOp.sid = c
              /\ lastOp.op \in {"join-room", "leave-room", "disconnect"}

\* A connection that is in one room joins another one in which a second
\* connection already is.
C12_Witness ==
    /\ lastOp.op = "join-room"
    /\ ~lastOp.noop
    /\ \E c \in AllSids \ {lastOp.sid} : c \in adapterRooms[RoomName(lastOp.match)]
    /\ \E m \in MatchIds \ {lastOp.match} :
          lastOp.sid \in adapterRooms[RoomName(m)]

\* C13: a connection that has just opened is in no match room, and no
\* published event goes to a connection that has no join-room standing, also
\* when an earlier connection, now closed, had joined rooms.
C13_NewConnectionStartsEmpty ==
    /\ lastOp.op = "connection" =>
          MatchRoomsOf(lastOp.sid, adapterRooms) = {}
    /\ lastOp.op = "publish" =>
          \A c \in AllSids : wantsRoom[c] = {} => c \notin lastOp.targets

\* An event is published to a room that a closed connection had joined while
\* a connection opened after the close has not sent join-room.
C13_Witness ==
    /\ lastOp.op = "publish"
    /\ \E old, new \in AllSids :
          /\ conn[old] = "closed"
          /\ lastOp.match \in wantsRoom[old]
          /\ conn[new] = "open"
          /\ wantsRoom[new] = {}
          /\ \E i, j \in 1..MaxConns :
                i < j /\ SocketIds[i] = old /\ SocketIds[j] = new

\* C14: after leave-room(R) a connection is no target of a publish to R
\* until it sends join-room(R) again, and join-room(R) followed by
\* leave-room(R) from a connection that was not in R gives back the room
\* registry as it was before the join.
C14_LeaveUndoesJoin ==
    /\ [](lastOp.op = "publish" =>
            \A c \in AllSids :
                lastOp.match \notin wantsRoom[c] => c \notin lastOp.targets)
    /\ [][(/\ lastOp.op = "join-room"
           /\ ~lastOp.noop
           /\ lastOp'.op = "leave-room"
           /\ lastOp'.sid = lastOp.sid
           /\ lastOp'.match = lastOp.match)
              => adapterRooms' = lastOp.before]_vars

\* A member of two rooms has left one of them.
C14_Witness ==
    /\ lastOp.op = "leave-room"
    /\ ~lastOp.noop
    /\ lastOp.sid \in lastOp.before[RoomName(lastOp.match)]
    /\ lastOp.sid \notin adapterRooms[RoomName(lastOp.match)]
    /\ \E m \in MatchIds \ {lastOp.match} :
          lastOp.sid \in adapterRooms[RoomName(m)]

\* C15: however the join-room and leave-room requests of different
\* connections and the publishes interleave, the room registry is what each
\* connection's own requests, applied in the order it sent them, give.
C15_RegistryIsSequentialResult ==
    \A c \in AllSids, m \in MatchIds :
        (c \in adapterRooms[RoomName(m)]) <=>
            (conn[c] = "open" /\ m \in wantsRoom[c])

\* One connection stays in a room that another one has joined and left.
C15_Witness ==
    /\ lastOp.op = "leave-room"
    /\ ~lastOp.noop
    /\ \E c \in AllSids \ {lastOp.sid} :
          /\ lastOp.match \in wantsRoom[c]
          /\ c \in adapterRooms[RoomName(lastOp.match)]

\* C16: through the handle given to the route handlers an event reaches a
\* connection only by a publish to a room, and only connections that are in
\* that room by their own join-room; no broadcast to all connections, no
\* event addressed to one connection by its id.
C16_HandleIsRoomScoped ==
    lastOp.targets # {} =>
        /\ lastOp.op = "publish"
        /\ lastOp.targets \subseteq CurrentMembers(lastOp.match)

----------------------------------------------------------------------------
(* Properties of the event log (checked under SpecLog) *)

\* How often event n was written to socket c.
TimesWritten(c, n) == Cardinality({i \in DOMAIN inbox[c] : inbox[c][i] = n})

\* C17: one publish writes the event at most once to each member of the
\* room, and a member whose transport fails neither fails the publish nor
\* keeps the event from being written to the other members.
C17_OnceToEachDespiteFailures ==
    lastOp.op = "publish" =>
        /\ \A i, j \in DOMAIN lastOp.attempts :
              lastOp.attempts[i] = lastOp.attempts[j] => i = j
        /\ \A c \in AllSids : TimesWritten(c, nPublished) <= 1
        /\ \A c \in CurrentMembers(lastOp.match) :
              /\ \E i \in DOMAIN lastOp.attempts : lastOp.attempts[i] = c
              /\ TimesWritten(c, nPublished) = 1
        /\ lastOp.result = "ok"

\* An event is published to a room of two; the transport of the member
\* written to first fails.
C17_Witness ==
    /\ lastOp.op = "publish"
    /\ Len(lastOp.attempts) >= 2
    /\ lastOp.attempts[1] \in lastOp.failed
    /\ lastOp.attempts[2] \notin lastOp.failed

\* C18: the events published to a room are written to each of its members
\* in the order they were published: a socket's log holds the events in
\* rising order, and a publish puts its event last in every member's log.
C18_PublishedOrderKept ==
    /\ \A c \in AllSids : \A i, j \in DOMAIN inbox[c] :
          i < j => inbox[c][i] < inbox[c][j]
    /\ lastOp.op = "publish" =>
          \A c \in CurrentMembers(lastOp.match) :
              /\ inbox[c] # <<>>
              /\ inbox[c][Len(inbox[c])] = nPublished

\* Two events were published to a room one after the other; one member
\* was in the room for both, another one for one of them only.
C18_Witness ==
    /\ lastOp.op = "publish"
    /\ nPublished >= 2
    /\ \E c \in CurrentMembers(lastOp.match) :
          /\ Len(inbox[c]) >= 2
          /\ inbox[c][Len(inbox[c]) - 1] = nPublished - 1
    /\ \E c \in AllSids : Len(inbox[c]) = 1

====
